---- MODULE Spec2Model ----
(***************************************************************************)
(* Model of python-three-sensor.py: the read loop of read_arduino_data,    *)
(* its two delta-threshold channels (photoresistor, sound sensor), the     *)
(* rolling baseline of calculate_baseline and the 2.0 s trigger cooldown.  *)
(*                                                                         *)
(* Time is counted in ticks of 0.1 s (TicksPerSecond), so 2.0 s is 20.     *)
(* Sensor values are the non-negative numbers the regular expressions of   *)
(* extract_sensor_values can capture; the model uses whole numbers.  A     *)
(* mean sum/len is kept as the exact fraction [num, den]; comparisons      *)
(* cross-multiply (for the values used here float arithmetic is exact      *)
(* enough that the comparisons of the code agree with the exact ones).     *)
(*                                                                         *)
(* The loop ends when its test fails, on Ctrl-C, and on an exception of    *)
(* the port, of decode('utf-8') or of a trigger action; pressed records    *)
(* the keys a trigger action presses.  The variable engine runs the        *)
(* engine of the specification (FIFO History, last trigger time "never")   *)
(* beside the loop, on the values and times the loop processes.            *)
(***************************************************************************)
EXTENDS Integers, Sequences, FiniteSets, TLC

(* ----------------------------- bounds --------------------------------- *)
\* lines read in Spec (both channels)
MaxLines == 4
\* lines read in SpecChannel (one channel per run, varied timing)
MaxChannelLines == 6
\* lines read in SpecWindow (one channel per run, more than a window)
MaxWindowLines == 11

(* ------------------------ program constants --------------------------- *)
\* "> 2.0" in the two cooldown tests: 2.0 s in ticks of 0.1 s
Cooldown == 20
\* calculate_baseline(values, window_size=10)
WindowSize == 10
\* "len(history) > 3": need some history before triggering
MinHistoryBeforeArming == 3
\* read_arduino_data(duration=100): 100 s in ticks of 0.1 s
Duration == 1000
\* "last_stress_trigger = 0", "last_sound_trigger = 0"
InitialLastTrigger == 0
\* "Collecting baseline data for first 10 readings..."
BaselineReadings == 10

\* None, for a value that was not parsed: the values parsed are never negative
None == -1
\* no baseline or increase was computed (a fraction has den >= 1)
NoFraction == [num |-> 0, den |-> 0]

(* ------------------------- input domains ------------------------------ *)
\* thresholds passed to read_arduino_data (the script passes 15 and 2)
PhotoThresholds == {15}
SoundThresholds == {2}
\* values of time.time() when the loop starts, in ticks
StartTimes == {0, 1000}
\* time elapsing between two readings of the clock, in ticks
TimeSteps == {1, 21}
ChannelSteps == {1, 20, 21}
WindowSteps == {21}
\* a pause that outlasts the duration
LongSteps == {1000}

VARIABLES
    photo_threshold, sound_threshold,    \* parameters of read_arduino_data
    start_time,                          \* start_time
    now,                                 \* the latest value of time.time()
    current_time,                        \* current_time: the clock at the last line
    last_stress_trigger, last_sound_trigger,
    photo_history, sound_history,
    pc,                                  \* "loop" | "done"
    raised,                              \* the exception that ended the loop
    closed,                              \* calls of arduino.close()
    lines_read,                          \* lines read so far
    line,                                \* the line read last, as tokens
    out,                                 \* what the last line printed, per channel
    fire_log,                            \* per channel, the times of its triggers
    pressed,                             \* per channel, the keys its last trigger pressed
    engine                               \* per channel, the specified engine run beside the loop

vars == <<photo_threshold, sound_threshold, start_time, now, current_time,
          last_stress_trigger, last_sound_trigger, photo_history,
          sound_history, pc, raised, closed, lines_read, line, out, fire_log,
          pressed, engine>>

Channels == {"photo", "sound"}

(* ------------------------- pure functions ----------------------------- *)
RECURSIVE Sum(_)
Sum(values) ==
    IF values = <<>> THEN 0 ELSE Head(values) + Sum(Tail(values))

\* values[-window_size:]
LastN(values, n) ==
    IF Len(values) <= n THEN values
    ELSE SubSeq(values, Len(values) - n + 1, Len(values))

\* mutant: the mean of the whole list, whatever its length
calculate_baseline_whole(values) ==
    IF values # <<>>
    THEN [num |-> Sum(values), den |-> Len(values)]
    ELSE [num |-> 0, den |-> 1]

\* mutant: always divides by window_size, counting missing slots as zero
calculate_baseline_padded(values) ==
    [num |-> Sum(LastN(values, WindowSize)), den |-> WindowSize]

\* mutant: the sum of the window divided by the length of the whole list
calculate_baseline_by_len(values) ==
    IF values # <<>>
    THEN [num |-> Sum(LastN(values, WindowSize)), den |-> Len(values)]
    ELSE [num |-> 0, den |-> 1]

\* calculate_baseline; the quotient is the fraction num/den
calculate_baseline(values) ==
    IF Len(values) < WindowSize
    THEN IF values # <<>>
         THEN [num |-> Sum(values), den |-> Len(values)]
         ELSE [num |-> 0, den |-> 1]
    ELSE [num |-> Sum(LastN(values, WindowSize)), den |-> WindowSize]

\* value - baseline, as a fraction over the same denominator
Increase(value, baseline) ==
    [num |-> value * baseline.den - baseline.num, den |-> baseline.den]

\* mutant: ">=" for ">"
ExceedsThreshold_ge(increase, threshold) ==
    increase.num >= threshold * increase.den

\* increase > threshold
ExceedsThreshold(increase, threshold) ==
    increase.num > threshold * increase.den

\* mutant: ">=" for ">"
CooldownElapsed_ge(time, last_trigger) ==
    (time - last_trigger) >= Cooldown

\* mutant: any later time passes
CooldownElapsed_any(time, last_trigger) ==
    time > last_trigger

\* (time - last_trigger) > 2.0
CooldownElapsed(time, last_trigger) ==
    (time - last_trigger) > Cooldown

\* mutant: ">=" for ">"
Armed_ge(history) == Len(history) >= MinHistoryBeforeArming

\* mutant: any value recorded arms the channel
Armed_nonempty(history) == Len(history) > 0

\* len(history) > 3
Armed(history) == Len(history) > MinHistoryBeforeArming

NoOutput == [decision |-> "None", baseline |-> NoFraction, increase |-> NoFraction]

\* mutant: the value is recorded only when it triggers
Process_record_on_fire(value, history, last_trigger, threshold, time, actuator_ok) ==
    LET h == Append(history, value)
        baseline == calculate_baseline(h)
        increase == Increase(value, baseline)
        fire == /\ ExceedsThreshold(increase, threshold)
                /\ CooldownElapsed(time, last_trigger)
    IN  IF ~Armed(h)
        THEN [history |-> history, last_trigger |-> last_trigger,
              raised |-> FALSE, fired |-> FALSE,
              out |-> [decision |-> "NoAction", baseline |-> NoFraction,
                       increase |-> NoFraction]]
        ELSE [history |-> IF fire THEN h ELSE history,
              last_trigger |-> IF fire /\ actuator_ok THEN time
                               ELSE last_trigger,
              raised |-> fire /\ ~actuator_ok,
              fired |-> fire,
              out |-> [decision |-> IF fire THEN "Fire" ELSE "NoAction",
                       baseline |-> baseline, increase |-> increase]]

\* One channel's part of the loop body for a parsed value: append, arm,
\* baseline, increase, the two tests, the trigger action (which raises
\* when actuator_ok is FALSE) and the update of the last trigger time.
Process(value, history, last_trigger, threshold, time, actuator_ok) ==
    LET h == Append(history, value)
        baseline == calculate_baseline(h)
        increase == Increase(value, baseline)
        fire == /\ ExceedsThreshold(increase, threshold)
                /\ CooldownElapsed(time, last_trigger)
    IN  IF ~Armed(h)
        THEN [history |-> h, last_trigger |-> last_trigger, raised |-> FALSE,
              fired |-> FALSE,
              out |-> [decision |-> "NoAction", baseline |-> NoFraction,
                       increase |-> NoFraction]]
        ELSE [history |-> h,
              last_trigger |-> IF fire /\ actuator_ok THEN time
                               ELSE last_trigger,
              raised |-> fire /\ ~actuator_ok,
              fired |-> fire,
              out |-> [decision |-> IF fire THEN "Fire" ELSE "NoAction",
                       baseline |-> baseline, increase |-> increase]]

\* the keys trigger_stress_action presses, in the order it presses them
trigger_stress_action == <<"cmd", "shift", "alt", "x">>
\* the keys trigger_sound_action presses, in the order it presses them
trigger_sound_action == <<"cmd", "shift", "alt", "x">>

\* The engine of the specification (sections 3 and 4.1), for one channel:
\* a FIFO History of at most window_size values and the last trigger time,
\* <<>> for "never"; decision, baseline and delta are what the last ingest
\* returned.
NewChannel ==
    [History |-> <<>>, last_trigger_time |-> <<>>, decision |-> "None",
     baseline |-> NoFraction, delta |-> NoFraction]

\* ingest(channel, value, timestamp) of the specification, steps 1 to 6
ingest(e, value, timestamp, threshold) ==
    LET H == IF Len(e.History) >= WindowSize
             THEN Append(Tail(e.History), value)
             ELSE Append(e.History, value)
        baseline == [num |-> Sum(H), den |-> Len(H)]
        delta == [num |-> value * baseline.den - baseline.num,
                  den |-> baseline.den]
        fire == /\ delta.num > threshold * delta.den
                /\ \/ e.last_trigger_time = <<>>
                   \/ timestamp - e.last_trigger_time[1] > Cooldown
    IN  IF Len(H) <= MinHistoryBeforeArming
        THEN [History |-> H, last_trigger_time |-> e.last_trigger_time,
              decision |-> "NoAction", baseline |-> NoFraction,
              delta |-> NoFraction]
        ELSE [History |-> H,
              last_trigger_time |-> IF fire THEN <<timestamp>>
                                    ELSE e.last_trigger_time,
              decision |-> IF fire THEN "Fire" ELSE "NoAction",
              baseline |-> baseline, delta |-> delta]

\* A line is a sequence of tokens and a token a sequence of characters.
\* "Photoresistor:" and "Sound Sensor:" are the tokens PhotoLabel and
\* SoundLabel.  The pattern (label, blanks, a run of digits with an optional
\* fraction) matches a label token followed by a token that starts with a
\* digit, and captures its leading digits; the inputs of the model hold no
\* decimal point.
PhotoLabel == <<"P">>
SoundLabel == <<"S">>
Digits == {"0", "1", "2", "3", "4", "5", "6", "7", "8", "9"}

DigitValue(ch) ==
    CASE ch = "0" -> 0 [] ch = "1" -> 1 [] ch = "2" -> 2 [] ch = "3" -> 3
      [] ch = "4" -> 4 [] ch = "5" -> 5 [] ch = "6" -> 6 [] ch = "7" -> 7
      [] ch = "8" -> 8 [] ch = "9" -> 9

\* the length of the leading run of digits of a token
RECURSIVE DigitRun(_)
DigitRun(token) ==
    IF token = <<>> \/ Head(token) \notin Digits THEN 0
    ELSE 1 + DigitRun(Tail(token))

\* a byte that is not valid UTF-8 (0xFF)
InvalidByte == "xFF"

\* readline().decode('utf-8') returns the text of the line, or raises
\* UnicodeDecodeError when the line holds a byte that is not valid UTF-8
Decodable(l) ==
    \A i \in DOMAIN l : \A j \in DOMAIN l[i] : l[i][j] # InvalidByte

\* float(match.group(1)) for a run of digits
RECURSIVE Number(_)
Number(digits) ==
    IF digits = <<>> THEN 0
    ELSE 10 * Number(SubSeq(digits, 1, Len(digits) - 1))
             + DigitValue(digits[Len(digits)])

\* re.search(pattern, line): the first match from token i on
RECURSIVE Search(_, _, _)
Search(l, label, i) ==
    IF i + 1 > Len(l) THEN None
    ELSE IF l[i] = label /\ DigitRun(l[i + 1]) > 0
         THEN Number(SubSeq(l[i + 1], 1, DigitRun(l[i + 1])))
         ELSE Search(l, label, i + 1)

\* extract_sensor_values: per sensor None (no match) or the number matched
extract_sensor_values(l) == <<Search(l, PhotoLabel, 1), Search(l, SoundLabel, 1)>>

(* ------------------------------ state --------------------------------- *)
Init ==
    /\ photo_threshold \in PhotoThresholds
    /\ sound_threshold \in SoundThresholds
    /\ start_time \in StartTimes
    /\ now = start_time
    /\ current_time = None
    /\ last_stress_trigger = InitialLastTrigger
    /\ last_sound_trigger = InitialLastTrigger
    /\ photo_history = <<>>
    /\ sound_history = <<>>
    /\ pc = "loop"
    /\ raised = "None"
    /\ closed = 0
    /\ lines_read = 0
    /\ line = <<>>
    /\ out = [c \in Channels |-> NoOutput]
    /\ fire_log = [c \in Channels |-> <<>>]
    /\ pressed = [c \in Channels |-> <<>>]
    /\ engine = [c \in Channels |-> NewChannel]

\* One iteration of the while loop that reads a line: the loop test, the
\* read, extract_sensor_values, the photoresistor part, the sound part.
\* An exception of a trigger action leaves the loop for the handler and
\* the finally clause, which closes the connection.
ReadLine(lines, steps, bound) ==
    /\ pc = "loop"
    /\ lines_read < bound
    /\ \E l \in lines, step \in steps, photo_ok \in BOOLEAN, sound_ok \in BOOLEAN :
       \E values \in {extract_sensor_values(l)} :
       \E p \in {Process(values[1], photo_history, last_stress_trigger,
                         photo_threshold, now + step, photo_ok)} :
       \E s \in {Process(values[2], sound_history, last_sound_trigger,
                         sound_threshold, now + step, sound_ok)} :
         LET t == now + step
             photo_seen == values[1] # None
             photo_raised == photo_seen /\ p.raised
             sound_seen == values[2] # None /\ ~photo_raised
             sound_raised == sound_seen /\ s.raised
         IN  /\ t - start_time < Duration
             /\ Decodable(l)
             \* the outcome of an action that is not called is no input
             /\ (photo_seen /\ p.fired) \/ photo_ok
             /\ (sound_seen /\ s.fired) \/ sound_ok
             /\ now' = t
             /\ current_time' = t
             /\ line' = l
             /\ lines_read' = lines_read + 1
             /\ photo_history' = IF photo_seen THEN p.history ELSE photo_history
             /\ last_stress_trigger' =
                    IF photo_seen THEN p.last_trigger ELSE last_stress_trigger
             /\ sound_history' = IF sound_seen THEN s.history ELSE sound_history
             /\ last_sound_trigger' =
                    IF sound_seen THEN s.last_trigger ELSE last_sound_trigger
             /\ out' = [c \in Channels |->
                          IF c = "photo"
                          THEN (IF photo_seen THEN p.out ELSE NoOutput)
                          ELSE (IF sound_seen THEN s.out ELSE NoOutput)]
             /\ fire_log' = [c \in Channels |->
                          IF c = "photo"
                          THEN (IF photo_seen /\ p.fired
                                THEN Append(fire_log[c], t)
                                ELSE fire_log[c])
                          ELSE (IF sound_seen /\ s.fired
                                THEN Append(fire_log[c], t)
                                ELSE fire_log[c])]
             /\ pressed' = [c \in Channels |->
                          IF c = "photo"
                          THEN (IF photo_seen /\ p.fired /\ photo_ok
                                THEN trigger_stress_action
                                ELSE pressed[c])
                          ELSE (IF sound_seen /\ s.fired /\ sound_ok
                                THEN trigger_sound_action
                                ELSE pressed[c])]
             /\ engine' = [c \in Channels |->
                          IF c = "photo"
                          THEN (IF photo_seen
                                THEN ingest(engine[c], values[1], t, photo_threshold)
                                ELSE engine[c])
                          ELSE (IF sound_seen
                                THEN ingest(engine[c], values[2], t, sound_threshold)
                                ELSE engine[c])]
             /\ IF photo_raised \/ sound_raised
                THEN /\ pc' = "done"
                     /\ raised' = IF photo_raised THEN "photo" ELSE "sound"
                     /\ closed' = closed + 1
                ELSE UNCHANGED <<pc, raised, closed>>
    /\ UNCHANGED <<photo_threshold, sound_threshold, start_time>>

\* The loop test fails: the loop ends and the finally clause closes.  The
\* clock is read after a pause long enough for the duration to have elapsed.
Timeout ==
    /\ pc = "loop"
    /\ \E step \in LongSteps :
         /\ now + step - start_time >= Duration
         /\ now' = now + step
    /\ pc' = "done"
    /\ closed' = closed + 1
    /\ UNCHANGED <<photo_threshold, sound_threshold, start_time, current_time,
                   last_stress_trigger, last_sound_trigger, photo_history,
                   sound_history, raised, lines_read, line, out, fire_log,
                   pressed, engine>>

\* An iteration whose line cannot be decoded: decode raises before line is
\* assigned, "except Exception" handles it, the finally clause closes.
DecodeError(lines, steps) ==
    /\ pc = "loop"
    /\ \E l \in lines, step \in steps :
         /\ now + step - start_time < Duration
         /\ ~Decodable(l)
         /\ now' = now + step
    /\ pc' = "done"
    /\ raised' = "UnicodeDecodeError"
    /\ closed' = closed + 1
    /\ UNCHANGED <<photo_threshold, sound_threshold, start_time,
                   current_time, last_stress_trigger, last_sound_trigger,
                   photo_history, sound_history, lines_read, line, out,
                   fire_log, pressed, engine>>

\* An iteration in which the port fails (in_waiting or readline raises
\* serial.SerialException): handled by "except Exception", then closed.
SerialError(steps) ==
    /\ pc = "loop"
    /\ \E step \in steps :
         /\ now + step - start_time < Duration
         /\ now' = now + step
    /\ pc' = "done"
    /\ raised' = "SerialException"
    /\ closed' = closed + 1
    /\ UNCHANGED <<photo_threshold, sound_threshold, start_time,
                   current_time, last_stress_trigger, last_sound_trigger,
                   photo_history, sound_history, lines_read, line, out,
                   fire_log, pressed, engine>>

\* mutant: the handler closes the connection and the finally clause closes
\* it again
Interrupt_closes_twice ==
    /\ pc = "loop"
    /\ pc' = "done"
    /\ raised' = "KeyboardInterrupt"
    /\ closed' = closed + 2
    /\ UNCHANGED <<photo_threshold, sound_threshold, start_time, now,
                   current_time, last_stress_trigger, last_sound_trigger,
                   photo_history, sound_history, lines_read, line, out,
                   fire_log, pressed, engine>>

\* Ctrl-C: KeyboardInterrupt, handled, then the finally clause closes.
Interrupt ==
    /\ pc = "loop"
    /\ pc' = "done"
    /\ raised' = "KeyboardInterrupt"
    /\ closed' = closed + 1
    /\ UNCHANGED <<photo_threshold, sound_threshold, start_time, now,
                   current_time, last_stress_trigger, last_sound_trigger, photo_history,
                   sound_history, lines_read, line, out, fire_log,
                   pressed, engine>>

\* a line of text no pattern matches ("Photoresistor: -5 Sound Sensor:")
GarbageLine == <<PhotoLabel, <<"-", "5">>, SoundLabel>>
\* a line with a byte that is not valid UTF-8 before a good reading
UndecodableLine == <<<<InvalidByte>>, PhotoLabel, <<"4", "0">>>>

\* the lines read: each gives the photoresistor, the sound sensor, both or
\* neither a value ("Photoresistor: 40 Sound Sensor: 10", ...), or is
\* malformed
Lines ==
    {p \o q : p \in {<<>>, <<PhotoLabel, <<"1", "0">>>>, <<PhotoLabel, <<"4", "0">>>>},
              q \in {<<>>, <<SoundLabel, <<"1", "0">>>>, <<SoundLabel, <<"4", "0">>>>}}
        \cup {GarbageLine, UndecodableLine}

Next ==
    \/ ReadLine(Lines, TimeSteps, MaxLines)
    \/ DecodeError(Lines, TimeSteps)
    \/ SerialError(TimeSteps)
    \/ Timeout
    \/ Interrupt

Spec == Init /\ [][Next]_vars

ChannelPhotoLines == {<<PhotoLabel, <<"5", "0">>>>, <<PhotoLabel, <<"8", "0">>>>}
ChannelSoundLines == {<<SoundLabel, <<"5", "0">>>>, <<SoundLabel, <<"8", "0">>>>}
ChannelEitherLines ==
    {<<PhotoLabel, <<"5", "0">>>>, <<PhotoLabel, <<"8", "0">>>>,
     <<SoundLabel, <<"5", "0">>>>, <<SoundLabel, <<"8", "0">>>>}

\* the lines of a run that feeds one channel only
ChannelLines ==
    IF sound_history # <<>> THEN ChannelSoundLines
    ELSE IF photo_history # <<>> THEN ChannelPhotoLines
    ELSE ChannelEitherLines

NextChannel ==
    \/ ReadLine(ChannelLines, ChannelSteps, MaxChannelLines)
    \/ Timeout
    \/ Interrupt

SpecChannel == Init /\ [][NextChannel]_vars

WindowPhotoLines == {<<PhotoLabel, <<"1", "0">>>>, <<PhotoLabel, <<"2", "5">>>>}
WindowSoundLines == {<<SoundLabel, <<"1", "0">>>>, <<SoundLabel, <<"2", "5">>>>}
WindowEitherLines ==
    {<<PhotoLabel, <<"1", "0">>>>, <<PhotoLabel, <<"2", "5">>>>,
     <<SoundLabel, <<"1", "0">>>>, <<SoundLabel, <<"2", "5">>>>}

WindowLines ==
    IF sound_history # <<>> THEN WindowSoundLines
    ELSE IF photo_history # <<>> THEN WindowPhotoLines
    ELSE WindowEitherLines

NextWindow ==
    \/ ReadLine(WindowLines, WindowSteps, MaxWindowLines)
    \/ Timeout
    \/ Interrupt

SpecWindow == Init /\ [][NextWindow]_vars

(* ------------------------------ claims -------------------------------- *)
History(c) == IF c = "photo" THEN photo_history ELSE sound_history
LastTrigger(c) == IF c = "photo" THEN last_stress_trigger ELSE last_sound_trigger
Threshold(c) == IF c = "photo" THEN photo_threshold ELSE sound_threshold

\* the value the last line gave channel c, or None
Value(c) ==
    IF c = "photo" THEN extract_sensor_values(line)[1]
    ELSE extract_sensor_values(line)[2]

\* the last line gave channel c a value and that value was processed
Ingested(c) == out[c].decision # "None"
\* ... and the channel was armed, so a baseline and an increase were printed
ArmedIngest(c) == Ingested(c) /\ out[c].baseline # NoFraction

\* sum of values[from..to], by index
RECURSIVE RangeSum(_, _, _)
RangeSum(values, from, to) ==
    IF from > to THEN 0 ELSE values[to] + RangeSum(values, from, to - 1)

Min(a, b) == IF a <= b THEN a ELSE b

\* n * (value - mean of the last n values), n = min(window_size, len)
RecentCount(c) == Min(WindowSize, Len(History(c)))
RecentSum(c) ==
    RangeSum(History(c), Len(History(c)) - RecentCount(c) + 1, Len(History(c)))
ScaledDelta(c) == Value(c) * RecentCount(c) - RecentSum(c)
DeltaExceeds(c) == ScaledDelta(c) > Threshold(c) * RecentCount(c)
DeltaEquals(c) == ScaledDelta(c) = Threshold(c) * RecentCount(c)

\* C1: any two triggers of one channel are at least the cooldown (2.0 s)
\* apart.
C1_FiresSeparatedByCooldown ==
    \A c \in Channels : \A i, j \in DOMAIN fire_log[c] :
        i < j => fire_log[c][j] - fire_log[c][i] >= Cooldown

\* a channel has triggered twice
C1_Witness ==
    \E c \in Channels : Len(fire_log[c]) >= 2

\* C2: the first min_history_before_arming (3) values of a channel never
\* trigger, whatever the values, the threshold and the times are.
C2_WarmUpNeverFires ==
    \A c \in Channels :
        Len(History(c)) <= MinHistoryBeforeArming =>
            /\ out[c].decision # "Fire"
            /\ fire_log[c] = <<>>

\* the third value of a channel exceeds the mean by more than the threshold,
\* the cooldown has elapsed, and the decision is NoAction
C2_Witness ==
    \E c \in Channels :
        /\ Len(History(c)) = MinHistoryBeforeArming
        /\ out[c].decision = "NoAction"
        /\ DeltaExceeds(c)
        /\ CooldownElapsed(current_time, LastTrigger(c))

\* C3: a channel that has never triggered is not held back by the cooldown:
\* an armed value whose increase exceeds the threshold triggers whatever its
\* time is (so a spike that is swallowed is on a channel that has triggered).
C3_NeverFiredNotHeldBack ==
    \A c \in Channels :
        (ArmedIngest(c) /\ DeltaExceeds(c) /\ out[c].decision = "NoAction")
            => fire_log[c] # <<>>

\* C4: a trigger action that raises does not end the loop, and the trigger
\* counts for the cooldown: the last trigger time is the time of the value.
C4_ActuatorFailureHarmless ==
    \A c \in Channels :
        raised = c => (pc = "loop" /\ LastTrigger(c) = current_time)

C6_BaselineIsRecentMean ==
    \A c \in Channels :
        ArmedIngest(c) =>
            /\ out[c].baseline.num * RecentCount(c) =
                   RecentSum(c) * out[c].baseline.den
            /\ out[c].increase.num * RecentCount(c) =
                   ScaledDelta(c) * out[c].increase.den
            /\ History(c) = <<10, 10, 10, 10, 25>> =>
                   /\ out[c].baseline.num = 13 * out[c].baseline.den
                   /\ out[c].increase.num = 12 * out[c].increase.den

\* the example of the claim
C6_Witness ==
    \E c \in Channels :
        /\ ArmedIngest(c)
        /\ History(c) = <<10, 10, 10, 10, 25>>

\* C7: a value whose increase equals the threshold never triggers.
C7_ThresholdStrict ==
    \A c \in Channels :
        (ArmedIngest(c) /\ DeltaEquals(c)) => out[c].decision = "NoAction"

\* an armed value whose increase equals the threshold, the cooldown elapsed
C7_Witness ==
    \E c \in Channels :
        /\ ArmedIngest(c)
        /\ DeltaEquals(c)
        /\ CooldownElapsed(current_time, LastTrigger(c))

\* C8: a value read exactly the cooldown after the last trigger time never
\* triggers, even when its increase exceeds the threshold.
C8_CooldownStrict ==
    [][\A c \in Channels :
          (/\ lines_read' = lines_read + 1
           /\ current_time' - LastTrigger(c) = Cooldown)
              => out'[c].decision # "Fire"]_vars

\* an armed value above the threshold, exactly the cooldown after the last
\* trigger of its channel, is not acted on
C8_Witness ==
    \E c \in Channels :
        /\ ArmedIngest(c)
        /\ DeltaExceeds(c)
        /\ fire_log[c] # <<>>
        /\ current_time - LastTrigger(c) = Cooldown
        /\ out[c].decision = "NoAction"

\* C9: after a trigger at t, an armed value above the threshold triggers
\* again and sets the last trigger time when it comes more than the cooldown
\* after t, and is not acted on when it comes earlier.
C9_FiresAgainAfterCooldown ==
    [][\A c \in Channels :
          (/\ fire_log[c] # <<>>
           /\ lines_read' = lines_read + 1
           /\ ArmedIngest(c)'
           /\ DeltaExceeds(c)')
          => IF current_time' - fire_log[c][Len(fire_log[c])] > Cooldown
             THEN out'[c].decision = "Fire" /\ LastTrigger(c)' = current_time'
             ELSE out'[c].decision = "NoAction"]_vars

\* what one channel's part of the loop does with a value, by the channel's
\* own state alone
OwnDecision(c, value, time) ==
    LET h == Append(History(c), value)
        n == Min(WindowSize, Len(h))
        delta == value * n - RangeSum(h, Len(h) - n + 1, Len(h))
    IN  IF /\ Len(h) > MinHistoryBeforeArming
           /\ delta > Threshold(c) * n
           /\ time - LastTrigger(c) > Cooldown
        THEN "Fire" ELSE "NoAction"

\* C10: channels are independent: a line leaves a channel it has no value
\* for unchanged, and a channel's value is ingested and decided on by that
\* channel's state alone, whatever happens on the other channel.
C10_ChannelsIndependent ==
    [][\A c \in Channels :
          lines_read' = lines_read + 1 =>
              IF Value(c)' = None
              THEN /\ History(c)' = History(c)
                   /\ LastTrigger(c)' = LastTrigger(c)
              ELSE /\ History(c)' = Append(History(c), Value(c)')
                   /\ out'[c].decision = OwnDecision(c, Value(c)', current_time')]_vars

\* C11: every value a line gives a channel and the loop processes is
\* appended to the channel's history, whatever the decision: in the warm-up,
\* below the threshold, within the cooldown, and when it triggers.
C11_IngestAppends ==
    [][\A c \in Channels :
          (lines_read' = lines_read + 1 /\ Ingested(c)')
              => History(c)' = Append(History(c), Value(c)')]_vars

\* a value above the threshold that the cooldown held back is the last
\* entry of its channel's history
C11_Witness ==
    \E c \in Channels :
        /\ ArmedIngest(c)
        /\ DeltaExceeds(c)
        /\ ~CooldownElapsed(current_time, LastTrigger(c))
        /\ out[c].decision = "NoAction"
        /\ History(c)[Len(History(c))] = Value(c)

\* C12: a channel's last trigger time changes only on a value that triggers,
\* and then becomes the time of that value; a value that does not trigger
\* (warm-up, increase not above the threshold, within the cooldown) leaves
\* it unchanged.
C12_LastTriggerOnlyOnFire ==
    [][\A c \in Channels :
          /\ LastTrigger(c)' # LastTrigger(c)
                => (lines_read' = lines_read + 1 /\ out'[c].decision = "Fire")
          /\ (lines_read' = lines_read + 1 /\ out'[c].decision = "Fire")
                => LastTrigger(c)' = current_time'
          /\ (lines_read' = lines_read + 1 /\ out'[c].decision = "NoAction")
                => LastTrigger(c)' = LastTrigger(c)]_vars

\* C13: a malformed line (one that cannot be decoded, or one in which no
\* pattern finds a value) is never an error: it changes no channel's history
\* or last trigger time, and the loop goes on reading the lines after it.
C13_MalformedLineSkipped ==
    [][(\/ raised' = "UnicodeDecodeError"
        \/ /\ lines_read' = lines_read + 1
           /\ \A c \in Channels : Value(c)' = None)
       => /\ \A c \in Channels : /\ History(c)' = History(c)
                                 /\ LastTrigger(c)' = LastTrigger(c)
          /\ pc' = "loop"]_vars

\* C14: a photoresistor trigger presses cmd+shift+alt+s and a sound sensor
\* trigger presses cmd+shift+alt+m.
C14_ShortcutPerSensor ==
    /\ pressed["photo"] # <<>> => pressed["photo"] = <<"cmd", "shift", "alt", "s">>
    /\ pressed["sound"] # <<>> => pressed["sound"] = <<"cmd", "shift", "alt", "m">>

\* C15: the first 10 readings of a channel only collect baseline data: a
\* channel does not trigger before it has received 10 readings.
C15_NoTriggerInFirstReadings ==
    \A c \in Channels :
        (Ingested(c) /\ Len(History(c)) <= BaselineReadings)
            => out[c].decision # "Fire"

\* C16: calculate_baseline is called only behind the arming guard: a value
\* in the warm-up gets no baseline at all, and a baseline that is computed
\* is a mean over at least 4 recorded values, never the fallback 0 of the
\* empty list.
C16_BaselineOnlyWhenArmed ==
    \A c \in Channels :
        Ingested(c) =>
            IF Len(History(c)) > MinHistoryBeforeArming
            THEN out[c].baseline.den > MinHistoryBeforeArming
            ELSE out[c].baseline = NoFraction /\ out[c].increase = NoFraction

\* the first baseline of a channel: computed at its fourth value, over four
\* values
C16_Witness ==
    \E c \in Channels :
        /\ Ingested(c)
        /\ Len(History(c)) = MinHistoryBeforeArming + 1
        /\ out[c].baseline.den = MinHistoryBeforeArming + 1

\* two results agree: both absent, or both present and equal as fractions
SameFraction(a, b) ==
    /\ (a = NoFraction) <=> (b = NoFraction)
    /\ a.num * b.den = b.num * a.den

\* C17: the loop, with its never-truncated list and a baseline over the
\* last 10 entries, and the specified engine, with its FIFO History of at
\* most window_size values, fed the same values at the same times, compute
\* the same baseline and delta and take the same decision at every ingest.
C17_EngineEquivalent ==
    \A c \in Channels :
        Ingested(c) =>
            /\ SameFraction(engine[c].baseline, out[c].baseline)
            /\ SameFraction(engine[c].delta, out[c].increase)
            /\ engine[c].decision = out[c].decision

\* the entries of the current window other than the newest: the up to 9
\* values before it
OthersCount(c) == RecentCount(c) - 1
OthersSum(c) ==
    RangeSum(History(c), Len(History(c)) - RecentCount(c) + 1,
             Len(History(c)) - 1)

\* C18: with a threshold >= 0, a value that triggers exceeds the mean of
\* the other entries of its window by more than the threshold, and a value
\* that is not greater than that mean never triggers.
C18_FireExceedsMeanOfOthers ==
    \A c \in Channels :
        (ArmedIngest(c) /\ Threshold(c) >= 0) =>
            /\ out[c].decision = "Fire" =>
                  Value(c) * OthersCount(c) - OthersSum(c)
                      > Threshold(c) * OthersCount(c)
            /\ Value(c) * OthersCount(c) <= OthersSum(c) =>
                  out[c].decision # "Fire"

\* a trigger on a full window: the list is longer than the window and the
\* 9 values before the newest are not all the same
C18_Witness ==
    \E c \in Channels :
        /\ out[c].decision = "Fire"
        /\ Len(History(c)) > WindowSize
        /\ OthersCount(c) = WindowSize - 1
        /\ OthersSum(c) # OthersCount(c) * History(c)[Len(History(c)) - 1]

\* C19: the connection stays open while the loop runs, and however the loop
\* ends (duration elapsed, Ctrl-C, an exception while reading, decoding or
\* triggering) it has been closed exactly once when read_arduino_data
\* returns; the loop body runs only while the elapsed time is below the
\* duration, and a loop that no exception ended has run for the duration.
C19_ClosedOnceAtEnd ==
    /\ pc = "loop" => (closed = 0 /\ now - start_time < Duration)
    /\ pc = "done" => closed = 1
    /\ (pc = "done" /\ raised = "None") => now - start_time >= Duration

\* the loop was ended by a trigger action that raised, after lines were
\* read, and the connection is closed
C19_Witness ==
    /\ pc = "done"
    /\ raised \in Channels
    /\ lines_read > MinHistoryBeforeArming
    /\ closed = 1

====
